---- MODULE Spec2Model ----
(***************************************************************************)
(* Anki flashcard generator: App (session state, handleGenerate),          *)
(* OutputPanel (format verdict), InputPanel (debounced regex preview) and  *)
(* the streaming generation service.                                       *)
(*                                                                         *)
(* Text is a sequence of one-character strings.  Offsets are 0-based as in *)
(* the source; t[i+1] is the character at offset i.                        *)
(***************************************************************************)
EXTENDS Integers, Sequences, FiniteSets, TLC

(***************************************************************************)
(* Bounds of the model.                                                    *)
(***************************************************************************)
MaxPieces == 3      \* lexicon pieces per enumerated text
MaxChunks == 2      \* provider chunks per generation
MaxGens == 2        \* handleGenerate invocations tracked at once
MaxEdits == 3       \* edits per debounce scenario
MaxReads == 2       \* FileReaders reading at once
MaxFetches == 2     \* requests the service worker handles at once

(***************************************************************************)
(* String helpers (String.prototype.trim, substring, join, indexOf).       *)
(***************************************************************************)
WhiteSpace == {" ", "\n", "\t"}

IsBlank(s) == \A i \in 1..Len(s) : s[i] \in WhiteSpace

Trim(s) ==
  IF IsBlank(s) THEN <<>>
  ELSE LET first == CHOOSE i \in 1..Len(s) :
                      s[i] \notin WhiteSpace /\ \A j \in 1..(i-1) : s[j] \in WhiteSpace
           last  == CHOOSE i \in 1..Len(s) :
                      s[i] \notin WhiteSpace /\ \A j \in (i+1)..Len(s) : s[j] \in WhiteSpace
       IN SubSeq(s, first, last)

\* s.substring(a, b) for 0 <= a, b; JS swaps the arguments when a > b
Substring(s, a, b) ==
  LET lo == IF a <= b THEN a ELSE b
      hi == IF a <= b THEN b ELSE a
      h  == IF hi > Len(s) THEN Len(s) ELSE hi
  IN SubSeq(s, lo + 1, h)

RECURSIVE Join(_, _)
Join(parts, sep) ==
  IF parts = <<>> THEN <<>>
  ELSE IF Len(parts) = 1 THEN parts[1]
  ELSE parts[1] \o sep \o Join(Tail(parts), sep)

RECURSIVE Flatten(_)
Flatten(parts) == IF parts = <<>> THEN <<>> ELSE parts[1] \o Flatten(Tail(parts))

StartsWithAt(s, i, w) ==
  /\ i + Len(w) <= Len(s)
  /\ \A k \in 1..Len(w) : s[i + k] = w[k]

Includes(s, w) == \E i \in 0..Len(s) : StartsWithAt(s, i, w)

\* s.indexOf(w, from); -1 when absent
IndexOf(s, w, from) ==
  IF \E i \in from..Len(s) : StartsWithAt(s, i, w)
  THEN CHOOSE i \in from..Len(s) :
         StartsWithAt(s, i, w) /\ \A j \in from..(i-1) : ~StartsWithAt(s, j, w)
  ELSE -1

BlankLine == <<"\n", "\n">>

(***************************************************************************)
(* The host regular-expression engine (RegExp, matchAll), as a             *)
(* backtracking matcher over pattern trees.  A run yields its outcomes in  *)
(* backtracking priority order; an outcome is the end offset and the span  *)
(* of capture group 1 (Undefined when the group took no part).             *)
(***************************************************************************)
Undefined == <<>>

Res(p, c) == [pos |-> p, cap |-> c]

Empty == [op |-> "empty"]
Chr(c) == [op |-> "char", c |-> c]
OneOf(cs) == [op |-> "set", cs |-> cs]
Dot == [op |-> "any"]
Bol == [op |-> "bol"]
Cat(l, r) == [op |-> "seq", l |-> l, r |-> r]
Alt(l, r) == [op |-> "alt", l |-> l, r |-> r]
Group(x) == [op |-> "group", x |-> x]
Ahead(x) == [op |-> "ahead", x |-> x]
Star(x) == [op |-> "star", x |-> x, greedy |-> TRUE]
LazyStar(x) == [op |-> "star", x |-> x, greedy |-> FALSE]

RECURSIVE HasGroup(_)
HasGroup(n) ==
  CASE n.op = "group" -> TRUE
    [] n.op \in {"seq", "alt"} -> HasGroup(n.l) \/ HasGroup(n.r)
    [] n.op \in {"ahead", "star"} -> HasGroup(n.x)
    [] OTHER -> FALSE

RECURSIVE Run(_, _, _, _, _)
RECURSIVE RunAll(_, _, _, _)

\* continue node n from each outcome of rs, keeping priority order
RunAll(n, t, rs, m) ==
  IF rs = <<>> THEN <<>>
  ELSE Run(n, t, rs[1].pos, rs[1].cap, m) \o RunAll(n, t, Tail(rs), m)

\* n: pattern tree, t: text, i: offset, cap: group 1 so far, m: multiline flag
Run(n, t, i, cap, m) ==
  CASE n.op = "empty" -> <<Res(i, cap)>>
    [] n.op = "char" ->
         IF i < Len(t) /\ t[i + 1] = n.c THEN <<Res(i + 1, cap)>> ELSE <<>>
    [] n.op = "set" ->
         IF i < Len(t) /\ t[i + 1] \in n.cs THEN <<Res(i + 1, cap)>> ELSE <<>>
    [] n.op = "any" ->
         IF i < Len(t) /\ t[i + 1] # "\n" THEN <<Res(i + 1, cap)>> ELSE <<>>
    [] n.op = "bol" ->
         IF i = 0 \/ (m /\ t[i] = "\n") THEN <<Res(i, cap)>> ELSE <<>>
    [] n.op = "seq" -> RunAll(n.r, t, Run(n.l, t, i, cap, m), m)
    [] n.op = "alt" -> Run(n.l, t, i, cap, m) \o Run(n.r, t, i, cap, m)
    [] n.op = "group" ->
         LET rs == Run(n.x, t, i, cap, m)
         IN [k \in 1..Len(rs) |-> Res(rs[k].pos, <<i, rs[k].pos>>)]
    [] n.op = "ahead" ->
         LET rs == Run(n.x, t, i, cap, m)
         IN IF rs = <<>> THEN <<>> ELSE <<Res(i, rs[1].cap)>>
    [] n.op = "star" ->
         LET inner == IF HasGroup(n.x) THEN Undefined ELSE cap
             body  == Run(n.x, t, i, inner, m)
             prog  == SelectSeq(body, LAMBDA r : r.pos > i)
             more  == RunAll(n, t, prog, m)
         IN IF n.greedy THEN more \o <<Res(i, cap)>> ELSE <<Res(i, cap)>> \o more

\* the least offset of a non-empty set of offsets
Least(S) == CHOOSE x \in S : \A y \in S : x <= y

ExecResult(s, r) == [index |-> s, end |-> r.pos, cap |-> r.cap]

ExecAt(n, t, hits, m) ==
  IF hits = {} THEN Undefined
  ELSE ExecResult(Least(hits), Run(n, t, Least(hits), Undefined, m)[1])

\* RegExp.prototype.exec from lastIndex: the first offset with a match
ExecFrom(n, t, from, m) ==
  ExecAt(n, t, {s \in from..Len(t) : Run(n, t, s, Undefined, m) # <<>>}, m)

\* the matches of a global regex, each found from the previous lastIndex; an
\* empty match advances lastIndex by one
RECURSIVE MatchesFrom(_, _, _, _)
RECURSIVE MatchesAfter(_, _, _, _)

MatchesAfter(n, t, x, m) ==
  IF x = Undefined THEN <<>>
  ELSE <<x>> \o MatchesFrom(n, t, IF x.end = x.index THEN x.end + 1 ELSE x.end, m)

MatchesFrom(n, t, from, m) ==
  IF from > Len(t) THEN <<>> ELSE MatchesAfter(n, t, ExecFrom(n, t, from, m), m)

RECURSIVE Lit(_)
Lit(w) == IF w = <<>> THEN Empty
          ELSE IF Len(w) = 1 THEN Chr(w[1]) ELSE Cat(Chr(w[1]), Lit(Tail(w)))

(***************************************************************************)
(* Pattern sources the model types into the pattern field, and what the    *)
(* RegExp constructor makes of each.                                       *)
(***************************************************************************)
PatBlank == <<>>
PatSpace == <<" ">>
PatQLines == <<"^", "Q", ":", ".", "*">>                             \* preset q_lines
PatBold == <<"\\", "*", "\\", "*", "(", ".", "*", "?", ")", "\\", "*", "\\", "*">>  \* preset bold
PatAStar == <<"a", "*">>
PatAltGroup == <<"a", "|", "(", "b", ")">>
PatAhead == <<"(", "?", "=", "(", "a", "b", ")", ")", "a", "|", "b">>
PatEmptyGroup == <<"(", ")", "a">>
PatBad == <<"(">>

Patterns == {PatBlank, PatSpace, PatQLines, PatBold, PatAStar, PatAltGroup,
             PatAhead, PatEmptyGroup, PatBad}

ParsePattern(p) ==
  CASE p = PatBlank -> [ok |-> TRUE, tree |-> Empty]
    [] p = PatSpace -> [ok |-> TRUE, tree |-> Chr(" ")]
    [] p = PatQLines -> [ok |-> TRUE, tree |-> Cat(Bol, Cat(Lit(<<"Q", ":">>), Star(Dot)))]
    [] p = PatBold -> [ok |-> TRUE,
                       tree |-> Cat(Lit(<<"*", "*">>), Cat(Group(LazyStar(Dot)), Lit(<<"*", "*">>)))]
    [] p = PatAStar -> [ok |-> TRUE, tree |-> Star(Chr("a"))]
    [] p = PatAltGroup -> [ok |-> TRUE, tree |-> Alt(Chr("a"), Group(Chr("b")))]
    [] p = PatAhead -> [ok |-> TRUE,
                        tree |-> Alt(Cat(Ahead(Group(Lit(<<"a", "b">>))), Chr("a")), Chr("b"))]
    [] p = PatEmptyGroup -> [ok |-> TRUE, tree |-> Cat(Group(Empty), Chr("a"))]
    [] p = PatBad -> [ok |-> FALSE]

FlagChars == {"d", "g", "i", "m", "s", "u", "v", "y"}

FlagsG == <<"g">>
FlagsGM == <<"g", "m">>
FlagsNone == <<>>
FlagsGG == <<"g", "g">>
FlagsX == <<"x">>

FlagStrings == {FlagsG, FlagsGM, FlagsNone, FlagsGG, FlagsX}

HasFlag(flags, c) == \E i \in 1..Len(flags) : flags[i] = c

FlagsValid(flags) ==
  /\ \A i \in 1..Len(flags) : flags[i] \in FlagChars
  /\ \A i, j \in 1..Len(flags) : i # j => flags[i] # flags[j]

Compiled(parsed, flags) ==
  IF FlagsValid(flags) /\ parsed.ok
  THEN [ok |-> TRUE, tree |-> parsed.tree,
        global |-> HasFlag(flags, "g"),
        multiline |-> HasFlag(flags, "m"),
        hasIndices |-> HasFlag(flags, "d")]
  ELSE [ok |-> FALSE]

\* new RegExp(pattern, flags): a SyntaxError for an unknown or repeated flag
\* or a pattern that does not parse
NewRegExp(pattern, flags) == Compiled(ParsePattern(pattern), flags)

\* a match as the code reads it: index, [0] and [1] and, with the d flag,
\* indices
MatchRecord(text, x, ngroups, hasIndices) ==
  [index |-> x.index,
   whole |-> Substring(text, x.index, x.end),
   hasGroup1 |-> x.cap # Undefined,
   group1 |-> IF x.cap = Undefined THEN <<>> ELSE Substring(text, x.cap[1], x.cap[2]),
   indices |-> IF hasIndices
               THEN <<<<x.index, x.end>>>> \o (IF ngroups = 1 THEN <<x.cap>> ELSE <<>>)
               ELSE Undefined]

MatchRecords(text, raw, ngroups, hasIndices) ==
  [k \in 1..Len(raw) |-> MatchRecord(text, raw[k], ngroups, hasIndices)]

\* Array.from(text.matchAll(regex)): a TypeError when the regex is not global
MatchAll(text, regex) ==
  IF ~regex.global THEN [ok |-> FALSE]
  ELSE [ok |-> TRUE,
        matches |-> MatchRecords(text, MatchesFrom(regex.tree, text, 0, regex.multiline),
                                 IF HasGroup(regex.tree) THEN 1 ELSE 0, regex.hasIndices)]

\* new RegExp(pattern, flags) followed by matchAll, either of which may throw
CompileAndMatch(text, regex) == IF regex.ok THEN MatchAll(text, regex) ELSE [ok |-> FALSE]

\* [...new Set(s)].join(''): first occurrences, in order
RECURSIVE Dedupe(_)
Dedupe(s) ==
  IF s = <<>> THEN <<>>
  ELSE LET init == Dedupe(SubSeq(s, 1, Len(s) - 1))
           c == s[Len(s)]
       IN IF \E i \in 1..Len(init) : init[i] = c THEN init ELSE Append(init, c)

(***************************************************************************)
(* text.split(regex) for a regex without capture groups.                   *)
(***************************************************************************)
RECURSIVE SplitLoop(_, _, _, _, _)
SplitLoop(t, n, m, p, q) ==
  IF q >= Len(t) THEN <<Substring(t, p, Len(t))>>
  ELSE LET z == Run(n, t, q, Undefined, m)
       IN IF z = <<>> THEN SplitLoop(t, n, m, p, q + 1)
          ELSE LET e == z[1].pos
               IN IF e = p THEN SplitLoop(t, n, m, p, q + 1)
                  ELSE <<Substring(t, p, q)>> \o SplitLoop(t, n, m, e, e)

Split(t, n, m) ==
  IF Len(t) = 0
  THEN IF Run(n, t, 0, Undefined, m) # <<>> THEN <<>> ELSE <<t>>
  ELSE SplitLoop(t, n, m, 0, 0)

\* variant: the markers without the lookahead, /^Q:|^Question:|^[-*] /m
MarkerRegexConsuming ==
  Alt(Cat(Bol, Lit(<<"Q", ":">>)),
      Alt(Cat(Bol, Lit(<<"Q", "u", "e", "s", "t", "i", "o", "n", ":">>)),
          Cat(Bol, Cat(OneOf({"-", "*"}), Chr(" ")))))

\* /(?=^Q:|^Question:|^[-*] )/m
MarkerRegex ==
  Ahead(Alt(Cat(Bol, Lit(<<"Q", ":">>)),
        Alt(Cat(Bol, Lit(<<"Q", "u", "e", "s", "t", "i", "o", "n", ":">>)),
            Cat(Bol, Cat(OneOf({"-", "*"}), Chr(" "))))))

AutoChunks(text) == SelectSeq(Split(text, MarkerRegex, TRUE), LAMBDA s : Trim(s) # <<>>)


(***************************************************************************)
(* String.prototype.split(separator) and JSON.parse, for the OutputPanel   *)
(* format check.                                                           *)
(***************************************************************************)
RECURSIVE SplitOnFrom(_, _, _, _)
SplitOnFrom(s, sep, p, q) ==
  IF q + Len(sep) > Len(s) THEN <<Substring(s, p, Len(s))>>
  ELSE IF StartsWithAt(s, q, sep)
       THEN <<Substring(s, p, q)>> \o SplitOnFrom(s, sep, q + Len(sep), q + Len(sep))
       ELSE SplitOnFrom(s, sep, p, q + 1)

SplitOn(s, sep) == SplitOnFrom(s, sep, 0, 0)

Digits == {"0", "1", "2", "3", "4", "5", "6", "7", "8", "9"}
JsonWs == {" ", "\n", "\t", "\r"}
JsonEscapes == {"\"", "\\", "/", "b", "f", "n", "r", "t"}

CharAt(t, i) == IF i < Len(t) THEN t[i + 1] ELSE "EOF"

RECURSIVE SkipWs(_, _)
SkipWs(t, i) == IF CharAt(t, i) \in JsonWs THEN SkipWs(t, i + 1) ELSE i

RECURSIVE SkipDigits(_, _)
SkipDigits(t, i) == IF CharAt(t, i) \in Digits THEN SkipDigits(t, i + 1) ELSE i

\* the parsers return the offset after the value, or -1
RECURSIVE JsonStringRest(_, _)
JsonStringRest(t, i) ==
  LET c == CharAt(t, i)
  IN CASE c = "EOF" -> -1
       [] c = "\"" -> i + 1
       [] c = "\\" -> IF CharAt(t, i + 1) \in JsonEscapes THEN JsonStringRest(t, i + 2) ELSE -1
       [] c \in {"\n", "\t", "\r"} -> -1
       [] OTHER -> JsonStringRest(t, i + 1)

JsonString(t, i) == IF CharAt(t, i) = "\"" THEN JsonStringRest(t, i + 1) ELSE -1

JsonNumber(t, i) ==
  LET a == IF CharAt(t, i) = "-" THEN i + 1 ELSE i
      b == IF CharAt(t, a) = "0" THEN a + 1
           ELSE IF CharAt(t, a) \in Digits THEN SkipDigits(t, a) ELSE -1
      c == IF b = -1 THEN -1
           ELSE IF CharAt(t, b) = "."
                THEN IF CharAt(t, b + 1) \in Digits THEN SkipDigits(t, b + 1) ELSE -1
                ELSE b
  IN c

RECURSIVE JsonValue(_, _)
RECURSIVE JsonElements(_, _)
RECURSIVE JsonMembers(_, _)

\* after '[' or ',': value ws (',' ws value ws)* ']'
JsonElements(t, i) ==
  LET e == JsonValue(t, i)
      j == IF e = -1 THEN -1 ELSE SkipWs(t, e)
  IN IF j = -1 THEN -1
     ELSE IF CharAt(t, j) = "]" THEN j + 1
     ELSE IF CharAt(t, j) = "," THEN JsonElements(t, SkipWs(t, j + 1))
     ELSE -1

\* after '{' or ',': string ws ':' ws value ws (',' ws member)* '}'
JsonMembers(t, i) ==
  LET k == JsonString(t, i)
      c == IF k = -1 THEN -1 ELSE SkipWs(t, k)
      e == IF c = -1 \/ CharAt(t, c) # ":" THEN -1 ELSE JsonValue(t, SkipWs(t, c + 1))
      j == IF e = -1 THEN -1 ELSE SkipWs(t, e)
  IN IF j = -1 THEN -1
     ELSE IF CharAt(t, j) = "}" THEN j + 1
     ELSE IF CharAt(t, j) = "," THEN JsonMembers(t, SkipWs(t, j + 1))
     ELSE -1

JsonValue(t, i) ==
  LET c == CharAt(t, i)
  IN CASE c = "[" -> LET j == SkipWs(t, i + 1)
                     IN IF CharAt(t, j) = "]" THEN j + 1 ELSE JsonElements(t, j)
       [] c = "{" -> LET j == SkipWs(t, i + 1)
                     IN IF CharAt(t, j) = "}" THEN j + 1 ELSE JsonMembers(t, j)
       [] c = "\"" -> JsonString(t, i)
       [] c = "-" \/ c \in Digits -> JsonNumber(t, i)
       [] StartsWithAt(t, i, <<"t", "r", "u", "e">>) -> i + 4
       [] StartsWithAt(t, i, <<"f", "a", "l", "s", "e">>) -> i + 5
       [] StartsWithAt(t, i, <<"n", "u", "l", "l">>) -> i + 4
       [] OTHER -> -1

\* JSON.parse(t) returns rather than throws
JsonParses(t) ==
  LET e == JsonValue(t, SkipWs(t, 0))
  IN e # -1 /\ SkipWs(t, e) = Len(t)

(***************************************************************************)
(* OutputPanel: the format check run when a generation has just finished.  *)
(***************************************************************************)
NonBlankLines(text) == SelectSeq(SplitOn(Trim(text), <<"\n">>), LAMBDA line : Trim(line) # <<>>)

\* variant: the closing quote is not tested
CsvLineBadNoEnd(line) ==
  \/ ~StartsWithAt(line, 0, <<"\"">>)
  \/ Len(SplitOn(line, <<"\"", ",", "\"">>)) # 2

\* line 70: the shape check of a csv line
CsvLineBad(line) ==
  \/ ~StartsWithAt(line, 0, <<"\"">>)
  \/ ~(Len(line) >= 1 /\ line[Len(line)] = "\"")
  \/ Len(SplitOn(line, <<"\"", ",", "\"">>)) # 2

TsvLineBad(line) == Len(SplitOn(line, <<"\t">>)) # 2

Validate(outputText, outputFormat) ==
  CASE outputFormat = "json" -> IF JsonParses(Trim(outputText)) THEN "valid" ELSE "invalid"
    [] outputFormat = "csv" ->
         LET csvLines == NonBlankLines(outputText)
         IN IF Len(csvLines) > 0 /\ \E k \in 1..Len(csvLines) : CsvLineBad(csvLines[k])
            THEN "warning" ELSE "valid"
    [] outputFormat = "tsv" ->
         LET tsvLines == NonBlankLines(outputText)
         IN IF Len(tsvLines) > 0 /\ \E k \in 1..Len(tsvLines) : TsvLineBad(tsvLines[k])
            THEN "warning" ELSE "valid"


(***************************************************************************)
(* App.handleGenerate up to its first await: the checks and the            *)
(* extraction.  The outcome is the error message set last, whether the     *)
(* generation is started, and the text handed to the generation call.      *)
(***************************************************************************)
Null == "null"
MsgOffline == "You appear to be offline."
MsgEmptyInput == "Please enter some text to generate flashcards."
MsgAutoNoMarkers == "Auto-detect mode is on, but no lines starting with markers were found. Processing all text."
MsgNoMatches == "No matches found for the provided regular expression."
MsgInvalidRegex == "Invalid regular expression pattern or flags."
MsgNoQuestions == "Please enter a list of questions for the AI to answer."
MsgEmptyAfter == "The text after applying the extraction method is empty."

RejectMessages == {MsgOffline, MsgEmptyInput, MsgNoMatches, MsgInvalidRegex,
                   MsgNoQuestions, MsgEmptyAfter}

Rejected(msg) == [start |-> FALSE, error |-> msg, processedInput |-> <<>>]

SnippetsWholeMatch(matches) == [k \in 1..Len(matches) |-> matches[k].whole]

\* matches.map(match => match[1] ?? match[0])
Snippets(matches) ==
  [k \in 1..Len(matches) |->
     IF matches[k].hasGroup1 THEN matches[k].group1 ELSE matches[k].whole]

\* variant: no check of the processed text
FinishExtractionUnchecked(err, processedInput) ==
  [start |-> TRUE, error |-> err, processedInput |-> processedInput]

\* lines 92-98: the processed text must not be blank
FinishExtraction(err, processedInput) ==
  IF Trim(processedInput) = <<>> THEN Rejected(MsgEmptyAfter)
  ELSE [start |-> TRUE, error |-> err, processedInput |-> processedInput]

\* lines 60-65, on the filtered chunks
JoinChunks(text, matches) ==
  IF Len(matches) > 0
  THEN FinishExtraction(Null, Join(matches, BlankLine))
  ELSE FinishExtraction(MsgAutoNoMarkers, text)

\* lines 53-65
ExtractAuto(text) == JoinChunks(text, AutoChunks(text))

\* lines 74-86, on the outcome of matchAll
ExtractMatches(all) ==
  IF ~all.ok THEN Rejected(MsgInvalidRegex)
  ELSE IF Len(all.matches) > 0
       THEN FinishExtraction(Null, Join(Snippets(all.matches), BlankLine))
       ELSE Rejected(MsgNoMatches)

\* lines 71-86
ExtractRegex(text, pattern, flags) ==
  ExtractMatches(CompileAndMatch(text, NewRegExp(pattern, flags)))

GenerateOutcome(online, text, method, pattern, flags, questions) ==
  IF ~online THEN Rejected(MsgOffline)
  ELSE IF Trim(text) = <<>> THEN Rejected(MsgEmptyInput)
  ELSE IF method = "auto" THEN ExtractAuto(text)
  ELSE IF method = "regex" /\ Trim(pattern) # <<>> THEN ExtractRegex(text, pattern, flags)
  ELSE IF method = "user_questions" /\ Trim(questions) = <<>> THEN Rejected(MsgNoQuestions)
  ELSE FinishExtraction(Null, text)

(***************************************************************************)
(* geminiService: the failure mapping, and App.getFriendlyErrorMessage.    *)
(* A raw failure is the thrown value: whether it is an Error, and its      *)
(* message.                                                                *)
(***************************************************************************)
MsgApiKey == <<"A", "P", "I", " ", "k", "e", "y", " ", "n", "o", "t", " ", "v", "a", "l", "i", "d">>
MsgExhausted == <<"R", "E", "S", "O", "U", "R", "C", "E", "_", "E", "X", "H", "A", "U", "S", "T", "E", "D">>
MsgRateLimit == <<"r", "a", "t", "e", " ", "l", "i", "m", "i", "t">>
MsgCandidate == <<"c", "a", "n", "d", "i", "d", "a", "t", "e">>
MsgWasBlocked == <<"w", "a", "s", " ", "b", "l", "o", "c", "k", "e", "d">>

Failure(isError, message) == [isError |-> isError, message |-> message]

\* the failures the provider raises in the session specification
Failures ==
  {Failure(FALSE, MsgApiKey),
   Failure(TRUE, <<>>),
   Failure(TRUE, MsgRateLimit \o MsgApiKey),
   Failure(TRUE, MsgExhausted),
   Failure(TRUE, MsgCandidate),
   Failure(TRUE, MsgCandidate \o MsgWasBlocked)}

KindGeneric == "An unexpected error occurred."

\* variant: the rate-limit test comes before the API-key test
MapFailureRateFirst(f) ==
  IF ~f.isError THEN KindGeneric
  ELSE IF Includes(f.message, MsgExhausted) \/ Includes(f.message, MsgRateLimit)
       THEN "RATE_LIMIT_EXCEEDED"
  ELSE IF Includes(f.message, MsgApiKey) THEN "API_KEY_INVALID"
  ELSE IF Includes(f.message, MsgCandidate) /\ Includes(f.message, MsgWasBlocked)
       THEN "CONTENT_BLOCKED"
  ELSE KindGeneric

\* geminiService lines 208-218: the message of the Error thrown to the caller
MapFailure(f) ==
  IF ~f.isError THEN KindGeneric
  ELSE IF Includes(f.message, MsgApiKey) THEN "API_KEY_INVALID"
  ELSE IF Includes(f.message, MsgExhausted) \/ Includes(f.message, MsgRateLimit)
       THEN "RATE_LIMIT_EXCEEDED"
  ELSE IF Includes(f.message, MsgCandidate) /\ Includes(f.message, MsgWasBlocked)
       THEN "CONTENT_BLOCKED"
  ELSE KindGeneric

getFriendlyErrorMessage(errorMessage) ==
  CASE errorMessage = "API_KEY_INVALID" -> "API Key Error"
    [] errorMessage = "RATE_LIMIT_EXCEEDED" -> "Rate Limit Exceeded"
    [] errorMessage = "CONTENT_BLOCKED" -> "Content Safety Error"
    [] OTHER -> "An unexpected error occurred. Please check your network connection or try again later."

(***************************************************************************)
(* Chunks of the provider's response stream: chunk.text may be undefined   *)
(* or empty.                                                               *)
(***************************************************************************)
NoText == [defined |-> FALSE, text |-> <<>>]
Chunk(t) == [defined |-> TRUE, text |-> t]

Chunks == {NoText, Chunk(<<>>), Chunk(<<"a", "\t", "b">>), Chunk(<<"[", "]">>)}

\* if (chunk.text)
Truthy(chunk) == chunk.defined /\ chunk.text # <<>>

\* String(chunk.text), as prev + chunk concatenates it
ChunkString(chunk) ==
  IF chunk.defined THEN chunk.text ELSE <<"u", "n", "d", "e", "f", "i", "n", "e", "d">>

\* the fragments generateFlashcardsStream yields for the chunks received
Yielded(received) == SelectSeq(received, Truthy)

RECURSIVE ConcatChunks(_)
ConcatChunks(cs) == IF cs = <<>> THEN <<>> ELSE ChunkString(cs[1]) \o ConcatChunks(Tail(cs))


(***************************************************************************)
(* InputPanel: the highlighted regex preview (the useMemo body).           *)
(***************************************************************************)
MsgPreviewNoMatches == "No matches found."
MsgPreviewInvalid == "Invalid Regular Expression"

Part(hl, text) == [highlight |-> hl, text |-> text]

PlainPreview(text, err) ==
  [parts |-> <<Part(FALSE, text)>>, matchCount |-> 0, error |-> err]

\* one round of matches.forEach, on the accumulator (parts, lastIndex)
HighlightIndices(match) ==
  IF match.indices # Undefined /\ Len(match.indices) > 1 /\ match.indices[2] # Undefined
  THEN match.indices[2]
  ELSE IF match.indices # Undefined THEN match.indices[1] ELSE Undefined

TextToHighlight(match) == IF match.hasGroup1 THEN match.group1 ELSE match.whole

\* lines 125-130: the plain text before the span, then the highlighted span
PushHighlight(text, acc, start, end) ==
  [parts |-> (IF start > acc.lastIndex
              THEN Append(acc.parts, Part(FALSE, Substring(text, acc.lastIndex, start)))
              ELSE acc.parts)
             \o <<Part(TRUE, Substring(text, start, end))>>,
   lastIndex |-> end]

\* lines 113-123: without match indices, search for the text to highlight
HighlightFallback(text, acc, textToHighlight, start) ==
  IF start = -1 THEN acc
  ELSE PushHighlight(text, acc, start, start + Len(textToHighlight))

HighlightAt(text, match, acc, indices) ==
  IF indices = Undefined
  THEN HighlightFallback(text, acc, TextToHighlight(match),
                         IndexOf(text, TextToHighlight(match), match.index))
  ELSE PushHighlight(text, acc, indices[1], indices[2])

HighlightStep(text, match, acc) == HighlightAt(text, match, acc, HighlightIndices(match))

RECURSIVE HighlightLoop(_, _, _)
HighlightLoop(text, matches, acc) ==
  IF matches = <<>> THEN acc
  ELSE HighlightLoop(text, Tail(matches), HighlightStep(text, matches[1], acc))

\* lines 133-135: the plain text after the last span
HighlightTail(text, acc) ==
  IF acc.lastIndex < Len(text)
  THEN Append(acc.parts, Part(FALSE, Substring(text, acc.lastIndex, Len(text))))
  ELSE acc.parts

Highlight(text, matches) ==
  HighlightTail(text, HighlightLoop(text, matches, [parts |-> <<>>, lastIndex |-> 0]))

\* [...new Set((flags || '') + 'dg')].join('')
PreviewFlags(flags) == Dedupe(flags \o <<"d", "g">>)

\* variant: no message when nothing matches
PreviewOfSilent(text, all) ==
  IF ~all.ok THEN PlainPreview(text, MsgPreviewInvalid)
  ELSE IF Len(all.matches) = 0 THEN PlainPreview(text, Null)
  ELSE [parts |-> Highlight(text, all.matches),
        matchCount |-> Len(all.matches),
        error |-> Null]

\* lines 101-103, 137 and 138-141
PreviewOf(text, all) ==
  IF ~all.ok THEN PlainPreview(text, MsgPreviewInvalid)
  ELSE IF Len(all.matches) = 0 THEN PlainPreview(text, MsgPreviewNoMatches)
  ELSE [parts |-> Highlight(text, all.matches),
        matchCount |-> Len(all.matches),
        error |-> Null]

Preview(method, text, pattern, flags) ==
  IF method # "regex" \/ text = <<>> \/ Trim(pattern) = <<>>
  THEN PlainPreview(text, Null)
  ELSE PreviewOf(text, CompileAndMatch(text, NewRegExp(pattern, PreviewFlags(flags))))

\* the text the preview's segments spell out, in order
PartsText(parts) == Flatten([k \in 1..Len(parts) |-> parts[k].text])


(***************************************************************************)
(* Enumerated input texts: concatenations of at most MaxPieces pieces.     *)
(***************************************************************************)
RegexLexicon == {<<"a">>, <<"b">>, <<"\n">>, <<"*", "*">>, <<"Q", ":">>}

MarkerLexicon == {<<"Q", ":">>, <<"Q", "u", "e", "s", "t", "i", "o", "n", ":">>,
                  <<"-", " ">>, <<"*", " ">>, <<"\n">>, <<"a">>, <<" ">>}

RECURSIVE TextsOf(_, _)
TextsOf(lexicon, n) ==
  IF n = 0 THEN {<<>>}
  ELSE TextsOf(lexicon, n - 1) \cup {t \o p : t \in TextsOf(lexicon, n - 1), p \in lexicon}

RegexTexts == TextsOf(RegexLexicon, MaxPieces)
MarkerTexts == TextsOf(MarkerLexicon, MaxPieces)

(***************************************************************************)
(* State.                                                                  *)
(***************************************************************************)
VARIABLES
  \* App (useState)
  inputText, outputText, isLoading, error, outputFormat, extractionMethod,
  regexPattern, regexFlags, questionList,
  \* environment: navigator.onLine
  onLine,
  \* the handleGenerate invocations suspended in their for-await loop: the
  \* text each passed to generateFlashcardsStream and the chunks the provider
  \* has delivered to it
  gens,
  \* OutputPanel: validation state and prevIsLoadingRef
  validation, prevIsLoadingRef,
  \* history: validator runs since the last generation started, and the text
  \* the validator last ran on
  validations, validatedText,
  \* InputPanel: the three useDebounce values, the milliseconds left on each
  \* pending timer (-1: none), the memoised preview and the selected preset
  debouncedInputText, debouncedRegexPattern, debouncedRegexFlags, timers, preview,
  selectedPreset,
  \* history: the failure raised to the latest request (none: <<>>), as the
  \* provider raised it and as the service threw it to App
  lastFailure,
  \* OutputPanel: the label of the Copy button; environment: what was last
  \* written to the clipboard (nothing yet: <<>>)
  copyButtonText, clipboard,
  \* InputPanel: fileError, and the contents the FileReaders still reading
  \* will deliver; history: the file last chosen (none: <<>>)
  fileError, reads, lastFile,
  \* React: the App component is mounted
  mounted,
  \* service worker: the URLs with a response in the cache, the requests it
  \* is handling; history: how the last request was answered (none: <<>>)
  cache, fetches, lastAnswer,
  \* history: edits to the three debounced inputs so far; and of the current
  \* burst of edits (each less than the delay after the one before), the
  \* number of edits and of preview recomputations their timers caused
  editCount, burst

configVars == <<inputText, outputFormat, extractionMethod, regexPattern, regexFlags, questionList>>
outputVars == <<validation, prevIsLoadingRef, validations, validatedText>>
exportVars == <<copyButtonText, clipboard>>
fileVars == <<fileError, reads, lastFile>>
swVars == <<cache, fetches, lastAnswer>>

\* sw.js lines 5-9, in the cache once the worker is installed (lines 12-20)
urlsToCache ==
  {<<"/">>,
   <<"/", "i", "n", "d", "e", "x", ".", "h", "t", "m", "l">>,
   <<"/", "i", "n", "d", "e", "x", ".", "t", "s", "x">>}

panelVars == <<debouncedInputText, debouncedRegexPattern, debouncedRegexFlags, timers, preview,
               selectedPreset, editCount, burst>>
vars == <<inputText, outputText, isLoading, error, outputFormat, extractionMethod,
          regexPattern, regexFlags, questionList, onLine, gens,
          validation, prevIsLoadingRef, validations, validatedText,
          debouncedInputText, debouncedRegexPattern, debouncedRegexFlags, timers, preview,
          selectedPreset, editCount, burst, lastFailure, copyButtonText, clipboard,
          fileError, reads, lastFile, mounted, cache, fetches, lastAnswer>>

OutputFormats == {"tsv", "csv", "json"}
ExtractionMethods == {"none", "auto", "regex", "ai", "user_questions"}

\* values typed in the session specification
SessionTexts == {<<>>, <<"a", "b">>, <<"Q", ":">>}
SessionPatterns == {PatBlank, PatAltGroup}
SessionFlags == {FlagsG, FlagsNone}
QuestionLists == {<<>>, <<"a", "?">>}

Idle == [status |-> "idle", message |-> ""]

ValidationMessage(status, format) ==
  CASE status = "valid" /\ format = "json" -> "JSON format is valid."
    [] status = "valid" -> "Format appears valid."
    [] status = "invalid" -> "Invalid JSON detected. The file may be corrupted or incomplete."
    [] status = "warning" /\ format = "csv" -> "Potential CSV formatting issues found. Check for proper quoting and delimiters."
    [] status = "warning" -> "Potential TSV formatting issues found. Some rows may not have exactly two columns."

\* InputPanel.tsx lines 85-87: the delay of the three useDebounce hooks
DebounceDelay == 250

TimerKeys == {"text", "pattern", "flags"}
NoTimers == [k \in TimerKeys |-> -1]
\* each useDebounce effect starts a timer when the panel mounts
MountTimers == [k \in TimerKeys |-> DebounceDelay]
NoBurst == [edits |-> 0, recomputes |-> 0]

Init ==
  /\ inputText = <<>>
  /\ outputText = <<>>
  /\ isLoading = FALSE
  /\ error = Null
  /\ outputFormat = "tsv"
  /\ extractionMethod = "none"
  /\ regexPattern = <<>>
  /\ regexFlags = FlagsG
  /\ questionList = <<>>
  /\ onLine \in BOOLEAN
  /\ gens = <<>>
  /\ validation = Idle
  /\ prevIsLoadingRef = FALSE
  /\ validations = 0
  /\ validatedText = <<>>
  /\ debouncedInputText = <<>>
  /\ debouncedRegexPattern = <<>>
  /\ debouncedRegexFlags = FlagsG
  /\ timers = MountTimers
  /\ preview = Preview("none", <<>>, <<>>, FlagsG)
  /\ selectedPreset = "custom"
  /\ editCount = 0
  /\ burst = NoBurst
  /\ lastFailure = <<>>
  /\ copyButtonText = "Copy"
  /\ clipboard = <<>>
  /\ fileError = Null
  /\ reads = <<>>
  /\ lastFile = <<>>
  /\ mounted = TRUE
  /\ cache = urlsToCache
  /\ fetches = <<>>
  /\ lastAnswer = <<>>

(***************************************************************************)
(* OutputPanel's validation effect, run after a render in which            *)
(* outputText, outputFormat or isLoading changed.                          *)
(***************************************************************************)
\* variant: the validator runs whenever output is shown and nothing is loading
EffectValidatesWhenShown(prevRef, loading, text) == loading = FALSE /\ text # <<>>

\* line 53, 55: justFinishedLoading && outputText
EffectValidates(prevRef, loading, text) == (prevRef = TRUE /\ loading = FALSE) /\ text # <<>>

\* variant: the else branch that resets to idle is missing
EffectValidationNoReset(prevRef, loading, text, format, current) ==
  IF EffectValidates(prevRef, loading, text)
  THEN LET status == Validate(text, format)
       IN [status |-> status, message |-> ValidationMessage(status, format)]
  ELSE current

\* variant: the effect validates on every run with output shown, a change of
\* the output format included
EffectValidationOnEveryRun(prevRef, loading, text, format, current) ==
  IF loading = FALSE /\ text # <<>>
  THEN LET status == Validate(text, format)
       IN [status |-> status, message |-> ValidationMessage(status, format)]
  ELSE Idle

\* lines 55-86: the validation state the effect leaves
EffectValidation(prevRef, loading, text, format, current) ==
  IF EffectValidates(prevRef, loading, text)
  THEN LET status == Validate(text, format)
       IN [status |-> status, message |-> ValidationMessage(status, format)]
  ELSE IF text = <<>> \/ loading THEN Idle
  ELSE current

OutputPanelEffect ==
  IF outputText' = outputText /\ outputFormat' = outputFormat /\ isLoading' = isLoading
  THEN UNCHANGED outputVars
  ELSE /\ validation' = EffectValidation(prevIsLoadingRef, isLoading', outputText',
                                         outputFormat', validation)
       /\ prevIsLoadingRef' = isLoading'
       /\ validations' = IF EffectValidates(prevIsLoadingRef, isLoading', outputText')
                         THEN (IF validations < 2 THEN validations + 1 ELSE 2)
                         ELSE IF ~isLoading /\ isLoading' THEN 0 ELSE validations
       /\ validatedText' = IF EffectValidates(prevIsLoadingRef, isLoading', outputText')
                           THEN outputText' ELSE validatedText

(***************************************************************************)
(* App and InputPanel controls (all disabled while isLoading).  Spec runs   *)
(* App and OutputPanel; the InputPanel's debounce hooks and preview read    *)
(* App state and write none of it, and run with the App state they read in  *)
(* DebounceSpec below.                                                      *)
(***************************************************************************)
AppSetInputText(t) == ~isLoading /\ t # inputText /\ inputText' = t
AppSetRegexPattern(p) == ~isLoading /\ p # regexPattern /\ regexPattern' = p
AppSetRegexFlags(f) == ~isLoading /\ f # regexFlags /\ regexFlags' = f

ChangeInputText ==
  /\ \E t \in SessionTexts : AppSetInputText(t)
  /\ UNCHANGED <<outputText, isLoading, error, outputFormat, extractionMethod, regexPattern,
                 regexFlags, questionList, onLine, gens>>
  /\ UNCHANGED outputVars /\ UNCHANGED panelVars
  /\ UNCHANGED lastFailure /\ UNCHANGED exportVars /\ UNCHANGED fileVars /\ UNCHANGED mounted /\ UNCHANGED swVars

ChangeRegexPattern ==
  /\ extractionMethod = "regex"
  /\ \E p \in SessionPatterns : AppSetRegexPattern(p)
  /\ UNCHANGED <<inputText, outputText, isLoading, error, outputFormat, extractionMethod,
                 regexFlags, questionList, onLine, gens>>
  /\ UNCHANGED outputVars /\ UNCHANGED panelVars
  /\ UNCHANGED lastFailure /\ UNCHANGED exportVars /\ UNCHANGED fileVars /\ UNCHANGED mounted /\ UNCHANGED swVars

ChangeRegexFlags ==
  /\ extractionMethod = "regex"
  /\ \E f \in SessionFlags : AppSetRegexFlags(f)
  /\ UNCHANGED <<inputText, outputText, isLoading, error, outputFormat, extractionMethod,
                 regexPattern, questionList, onLine, gens>>
  /\ UNCHANGED outputVars /\ UNCHANGED panelVars
  /\ UNCHANGED lastFailure /\ UNCHANGED exportVars /\ UNCHANGED fileVars /\ UNCHANGED mounted /\ UNCHANGED swVars

ChangeExtractionMethod ==
  /\ ~isLoading
  /\ \E m \in ExtractionMethods : m # extractionMethod /\ extractionMethod' = m
  /\ UNCHANGED <<inputText, outputText, isLoading, error, outputFormat, regexPattern,
                 regexFlags, questionList, onLine, gens>>
  /\ UNCHANGED outputVars /\ UNCHANGED panelVars
  /\ UNCHANGED lastFailure /\ UNCHANGED exportVars /\ UNCHANGED fileVars /\ UNCHANGED mounted /\ UNCHANGED swVars

ChangeQuestionList ==
  /\ ~isLoading
  /\ extractionMethod = "user_questions"
  /\ \E q \in QuestionLists : q # questionList /\ questionList' = q
  /\ UNCHANGED <<inputText, outputText, isLoading, error, outputFormat, extractionMethod,
                 regexPattern, regexFlags, onLine, gens>>
  /\ UNCHANGED outputVars /\ UNCHANGED panelVars
  /\ UNCHANGED lastFailure /\ UNCHANGED exportVars /\ UNCHANGED fileVars /\ UNCHANGED mounted /\ UNCHANGED swVars

ChangeOutputFormat ==
  /\ ~isLoading
  /\ \E f \in OutputFormats : f # outputFormat /\ outputFormat' = f
  /\ UNCHANGED <<inputText, outputText, isLoading, error, extractionMethod, regexPattern,
                 regexFlags, questionList, onLine, gens>>
  /\ OutputPanelEffect
  /\ UNCHANGED panelVars
  /\ UNCHANGED lastFailure /\ UNCHANGED exportVars /\ UNCHANGED fileVars /\ UNCHANGED mounted /\ UNCHANGED swVars

ConnectivityChange ==
  /\ onLine' = ~onLine
  /\ UNCHANGED <<inputText, outputText, isLoading, error, outputFormat, extractionMethod,
                 regexPattern, regexFlags, questionList, gens>>
  /\ UNCHANGED outputVars /\ UNCHANGED panelVars
  /\ UNCHANGED lastFailure /\ UNCHANGED exportVars /\ UNCHANGED fileVars /\ UNCHANGED mounted /\ UNCHANGED swVars

(***************************************************************************)
(* Generate button and the generation stream.                              *)
(***************************************************************************)
\* variant: the button stays enabled while loading
GenerateEnabledWhileLoading == ~(Trim(inputText) = <<>>)

\* InputPanel line 392: disabled={isLoading || !inputText.trim()}
GenerateEnabled == ~(isLoading \/ Trim(inputText) = <<>>)

\* variant: a started generation keeps the error shown before
ErrorKeptOnStart(o, prev) == IF o.start THEN prev ELSE o.error

\* lines 41-95: the message of the check that failed; line 50: setError(null)
\* before the extraction, whose diagnostic (line 62) may follow
ErrorAfterRequest(o, prev) == o.error

\* variant: the output is cleared before the checks
OutputClearedFirst(o, prev) == <<>>

\* lines 97-98: setOutputText('') runs only once every check has passed
OutputAfterRequest(o, prev) == IF o.start THEN <<>> ELSE prev

HandleGenerate ==
  /\ mounted
  /\ GenerateEnabled
  /\ Len(gens) < MaxGens
  /\ LET o == GenerateOutcome(onLine, inputText, extractionMethod, regexPattern,
                              regexFlags, questionList)
     IN /\ error' = ErrorAfterRequest(o, error)
        /\ IF o.start
           THEN /\ isLoading' = TRUE
                /\ gens' = Append(gens, [userInput |-> o.processedInput, received |-> <<>>])
           ELSE UNCHANGED <<isLoading, gens>>
        /\ outputText' = OutputAfterRequest(o, outputText)
  /\ lastFailure' = <<>>
  /\ UNCHANGED exportVars /\ UNCHANGED fileVars /\ UNCHANGED mounted /\ UNCHANGED swVars
  /\ UNCHANGED configVars /\ UNCHANGED onLine
  /\ OutputPanelEffect
  /\ UNCHANGED panelVars

RemoveAt(s, i) == SubSeq(s, 1, i - 1) \o SubSeq(s, i + 1, Len(s))

\* variant: every chunk is yielded, text or not
ServiceYieldsAll(chunk) == TRUE

\* geminiService lines 200-204: if (chunk.text) yield chunk.text
ServiceYields(chunk) == Truthy(chunk)

\* App line 103: setOutputText((prev) => prev + chunk); React drops a state
\* update of a component that is no longer mounted
AppendChunk(prev, chunk) == prev \o ChunkString(chunk)

StreamChunk ==
  /\ \E g \in 1..Len(gens) :
       /\ Len(gens[g].received) < MaxChunks
       /\ \E c \in Chunks :
            /\ gens' = [gens EXCEPT ![g].received = Append(@, c)]
            /\ outputText' = IF mounted /\ ServiceYields(c)
                             THEN AppendChunk(outputText, c) ELSE outputText
  /\ UNCHANGED <<isLoading, error, onLine>>
  /\ UNCHANGED configVars
  /\ OutputPanelEffect
  /\ UNCHANGED panelVars
  /\ UNCHANGED lastFailure /\ UNCHANGED exportVars /\ UNCHANGED fileVars /\ UNCHANGED mounted /\ UNCHANGED swVars

\* variant: no finally block
LoadingLeftOn(loading) == loading

\* App lines 109-111: finally { setIsLoading(false) }
LoadingAfterStream(loading) == FALSE

\* the provider's stream ends: the for-await loop exits through finally
StreamEnd ==
  /\ \E g \in 1..Len(gens) : gens' = RemoveAt(gens, g)
  /\ isLoading' = (IF mounted THEN LoadingAfterStream(isLoading) ELSE isLoading)
  /\ UNCHANGED <<outputText, error, onLine>>
  /\ UNCHANGED configVars
  /\ OutputPanelEffect
  /\ UNCHANGED panelVars
  /\ UNCHANGED lastFailure /\ UNCHANGED exportVars /\ UNCHANGED fileVars /\ UNCHANGED mounted /\ UNCHANGED swVars

\* the provider call or stream fails with one of failures: mapped by the
\* service (lines 206-218), caught by App (lines 105-111)
Fail(failures) ==
  /\ \E g \in 1..Len(gens) : gens' = RemoveAt(gens, g)
  /\ \E f \in failures :
       /\ lastFailure' = <<[raw |-> f, kind |-> MapFailure(f)]>>
       /\ error' = (IF mounted THEN getFriendlyErrorMessage(MapFailure(f)) ELSE error)
  /\ isLoading' = (IF mounted THEN LoadingAfterStream(isLoading) ELSE isLoading)
  /\ UNCHANGED <<outputText, onLine>>
  /\ UNCHANGED exportVars /\ UNCHANGED fileVars /\ UNCHANGED mounted /\ UNCHANGED swVars
  /\ UNCHANGED configVars
  /\ OutputPanelEffect
  /\ UNCHANGED panelVars

StreamFail == Fail(Failures)

Next ==
  \/ ChangeInputText
  \/ ChangeRegexPattern
  \/ ChangeRegexFlags
  \/ ChangeExtractionMethod
  \/ ChangeQuestionList
  \/ ChangeOutputFormat
  \/ ConnectivityChange
  \/ HandleGenerate
  \/ StreamChunk
  \/ StreamEnd
  \/ StreamFail

Spec == Init /\ [][Next]_vars


(***************************************************************************)
(* Properties of the session.                                              *)
(***************************************************************************)
\* the fragments (non-empty chunk texts) of a generation, concatenated in
\* arrival order
FragmentsText(received) ==
  LET frags == SelectSeq(received, LAMBDA c : c.defined /\ c.text # <<>>)
  IN Flatten([k \in 1..Len(frags) |-> frags[k].text])

\* C1: a Generate request that ends in a rejection message starts no
\* generation, leaves isLoading false and leaves outputText as it was; and
\* outputText goes from non-empty to empty only in the step that enters the
\* generating state.
RejectionKeepsOutput ==
  [][ /\ (HandleGenerate /\ error' \in RejectMessages)
           => (gens' = gens /\ ~isLoading /\ ~isLoading' /\ outputText' = outputText)
      /\ (outputText # <<>> /\ outputText' = <<>>) => (~isLoading /\ isLoading') ]_vars

\* a request was rejected for lack of matches while earlier output is shown
RejectedWithOutputShown ==
  /\ error = MsgNoMatches
  /\ outputText # <<>>
  /\ ~isLoading
  /\ gens = <<>>

\* C2: at most one generation is in flight in every state, and a generation
\* starts only in a step taken while isLoading is false.
SingleGenerationInFlight ==
  /\ [](Len(gens) <= 1 /\ (isLoading <=> Len(gens) = 1))
  /\ [][Len(gens') > Len(gens) => ~isLoading]_vars

\* a generation is in flight, has received chunks, and Generate is disabled
GenerationStreaming ==
  /\ isLoading
  /\ Len(gens) = 1
  /\ Len(gens[1].received) = MaxChunks
  /\ Trim(inputText) # <<>>

\* C3: while a generation runs, outputText is the concatenation, in arrival
\* order, of the non-empty fragments received so far in that generation.
OutputIsFragmentsInOrder ==
  isLoading => (Len(gens) >= 1 /\ outputText = FragmentsText(gens[1].received))

\* two different fragments have arrived, after a chunk without text
TwoFragmentsArrived ==
  /\ isLoading
  /\ Len(gens) = 1
  /\ \E i, j \in 1..Len(gens[1].received) :
       /\ i < j
       /\ Truthy(gens[1].received[i]) /\ Truthy(gens[1].received[j])
       /\ gens[1].received[i] # gens[1].received[j]
  /\ outputText = <<"a", "\t", "b", "[", "]">>

\* C4: the validator runs only in the step where isLoading goes from true to
\* false, on the complete accumulated output of that generation, and in that
\* step exactly when the output is non-empty; no step taken while nothing is
\* loading changes the verdict, and the validator runs at most once per
\* generation.
VerdictOncePerGeneration ==
  /\ [](validations <= 1)
  /\ [][ /\ (validations' # validations /\ validations' # 0)
              => /\ isLoading /\ ~isLoading'
                 /\ outputText' # <<>>
                 /\ Len(gens) = 1
                 /\ validatedText' = FragmentsText(gens[1].received)
                 /\ validatedText' = outputText'
                 /\ validation'.status = Validate(outputText', outputFormat')
         /\ (isLoading /\ ~isLoading')
              => validations' = (IF outputText' # <<>> THEN 1 ELSE 0)
         /\ (~isLoading /\ ~isLoading') => validation' = validation ]_vars

\* a generation finished with output, got its verdict, and the format was
\* changed afterwards
VerdictComputedThenFormatChanged ==
  /\ validations = 1
  /\ ~isLoading
  /\ outputText # <<>>
  /\ validatedText = outputText
  /\ validation.status = "valid"
  /\ Validate(outputText, outputFormat) # "valid"

\* C5: the verdict is idle whenever a generation is in progress or outputText
\* is empty.
VerdictIdleWhileLoadingOrEmpty ==
  (isLoading \/ outputText = <<>>) => validation.status = "idle"

\* a new generation is streaming after an earlier one got a verdict
NewGenerationAfterVerdict ==
  /\ isLoading
  /\ validatedText # <<>>
  /\ outputText # <<>>
  /\ validation = Idle


(***************************************************************************)
(* GenSpec: handleGenerate on enumerated inputs.  The session starts with  *)
(* any typed text and configuration, nothing generated yet, and the        *)
(* Generate button is clicked.                                             *)
(***************************************************************************)
GenInit ==
  /\ \/ /\ extractionMethod = "regex"
        /\ inputText \in RegexTexts
        /\ regexPattern \in Patterns
        /\ regexFlags \in FlagStrings
        /\ questionList = <<>>
     \/ /\ extractionMethod \in ExtractionMethods \ {"regex"}
        /\ inputText \in MarkerTexts
        /\ regexPattern = <<>>
        /\ regexFlags = FlagsG
        /\ questionList \in (IF extractionMethod = "user_questions" THEN QuestionLists ELSE {<<>>})
  /\ onLine \in BOOLEAN
  /\ outputText = <<>>
  /\ isLoading = FALSE
  /\ error = Null
  /\ outputFormat = "tsv"
  /\ gens = <<>>
  /\ validation = Idle
  /\ prevIsLoadingRef = FALSE
  /\ validations = 0
  /\ validatedText = <<>>
  /\ debouncedInputText = inputText
  /\ debouncedRegexPattern = regexPattern
  /\ debouncedRegexFlags = regexFlags
  /\ timers = NoTimers
  /\ preview = Preview(extractionMethod, inputText, regexPattern, regexFlags)
  /\ selectedPreset = "custom"
  /\ editCount = 0
  /\ burst = NoBurst
  /\ lastFailure = <<>>
  /\ copyButtonText = "Copy"
  /\ clipboard = <<>>
  /\ fileError = Null
  /\ reads = <<>>
  /\ lastFile = <<>>
  /\ mounted = TRUE
  /\ cache = urlsToCache
  /\ fetches = <<>>
  /\ lastAnswer = <<>>

GenNext == HandleGenerate

GenSpec == GenInit /\ [][GenNext]_vars

\* a line of text starts at offset i
LineStart(text, i) == i = 0 \/ (i <= Len(text) /\ text[i] = "\n")

\* some line of text starts with one of the auto-detect markers
HasMarkerLine(text) ==
  \E i \in 0..Len(text) :
    /\ LineStart(text, i)
    /\ \/ StartsWithAt(text, i, <<"Q", ":">>)
       \/ StartsWithAt(text, i, <<"Q", "u", "e", "s", "t", "i", "o", "n", ":">>)
       \/ StartsWithAt(text, i, <<"-", " ">>)
       \/ StartsWithAt(text, i, <<"*", " ">>)

\* the handler has run on the request of this session
Requested == gens # <<>> \/ error # Null

\* C9: in auto mode, a non-blank text without a marker line is sent unchanged
\* and the "no markers found" diagnostic is reported.
AutoFallbackReportsDiagnostic ==
  (/\ Requested
   /\ onLine
   /\ extractionMethod = "auto"
   /\ Trim(inputText) # <<>>
   /\ ~HasMarkerLine(inputText))
  => (/\ Len(gens) = 1
      /\ gens[1].userInput = inputText
      /\ error = MsgAutoNoMarkers)

\* the snippets the claim describes, from the matches of the compiled pattern
ClaimedSnippets(text, raw) ==
  [k \in 1..Len(raw) |->
     IF raw[k].cap # Undefined THEN Substring(text, raw[k].cap[1], raw[k].cap[2])
     ELSE Substring(text, raw[k].index, raw[k].end)]

ClaimedRegexText(text, pattern, flags) ==
  Join(ClaimedSnippets(text, MatchesFrom(ParsePattern(pattern).tree, text, 0,
                                         HasFlag(flags, "m"))),
       BlankLine)

\* C10 as stated: in regex mode a started generation is always sent the
\* blank-line join of the per-match snippets, a blank pattern included.
RegexModeSendsSnippets ==
  (extractionMethod = "regex" /\ Len(gens) = 1)
  => gens[1].userInput = ClaimedRegexText(inputText, regexPattern, regexFlags)

\* C10 amended: with a pattern that is not blank after trimming, the text sent
\* is the blank-line join of the per-match snippets; with a blank pattern the
\* raw input is sent.
RegexModeSendsSnippetsUnlessBlank ==
  (extractionMethod = "regex" /\ Len(gens) = 1)
  => gens[1].userInput = (IF Trim(regexPattern) # <<>>
                          THEN ClaimedRegexText(inputText, regexPattern, regexFlags)
                          ELSE inputText)

\* a generation started on two snippets, one a capture group's text and one
\* a whole match
RegexSnippetsSent ==
  /\ extractionMethod = "regex"
  /\ regexPattern = PatAltGroup
  /\ Len(gens) = 1
  /\ inputText = <<"a", "Q", ":", "b">>
  /\ gens[1].userInput = <<"a", "\n", "\n", "b">>


(***************************************************************************)
(* DebounceSpec: the InputPanel's three useDebounce hooks and the preview   *)
(* memo, under edits of the text, the pattern and the flags.  Time passes   *)
(* in steps of half the delay; a timer that is due runs before anything     *)
(* else happens.                                                            *)
(***************************************************************************)
TickMs == DebounceDelay \div 2

\* InputPanel.tsx lines 48-54 (three of the five presets)
Presets ==
  [custom |-> [pattern |-> <<>>, flags |-> FlagsG],
   q_lines |-> [pattern |-> PatQLines, flags |-> FlagsGM],
   bold |-> [pattern |-> PatBold, flags |-> FlagsG]]

PanelTexts == {<<>>, <<"a", "b">>}
PanelPatterns == {<<>>, PatAhead}
PanelFlags == {FlagsG, FlagsGM}
PanelMethods == {"none", "regex"}

NoTimerDue == \A k \in TimerKeys : timers[k] # 0
TimersIdle == \A k \in TimerKeys : timers[k] = -1

\* variant: one timer shared by the three inputs
RescheduleAll(ts, changed) == [k \in TimerKeys |-> DebounceDelay]

\* useDebounce lines 10-19: the effect of each hook whose value changed clears
\* its timer and starts a new one
Reschedule(ts, changed) ==
  [k \in TimerKeys |-> IF k \in changed THEN DebounceDelay ELSE ts[k]]

\* an edit opens a burst when the timers of all earlier edits have run
BurstAfterEdit == IF TimersIdle THEN [edits |-> 1, recomputes |-> 0]
                  ELSE [burst EXCEPT !.edits = @ + 1]

\* the panel after a render in which the inputs in changed have new values
PanelEdit(changed) ==
  /\ NoTimerDue
  /\ editCount < MaxEdits
  /\ timers' = Reschedule(timers, changed)
  /\ editCount' = editCount + 1
  /\ burst' = BurstAfterEdit
  /\ UNCHANGED <<debouncedInputText, debouncedRegexPattern, debouncedRegexFlags, preview>>

\* textarea onChange (line 227)
EditInputText ==
  /\ \E t \in PanelTexts : AppSetInputText(t)
  /\ PanelEdit({"text"})
  /\ UNCHANGED <<outputText, isLoading, error, outputFormat, extractionMethod, regexPattern,
                 regexFlags, questionList, onLine, gens, selectedPreset>>
  /\ UNCHANGED outputVars
  /\ UNCHANGED lastFailure /\ UNCHANGED exportVars /\ UNCHANGED fileVars /\ UNCHANGED mounted /\ UNCHANGED swVars

\* handlePatternChange
EditRegexPattern ==
  /\ extractionMethod = "regex"
  /\ \E p \in PanelPatterns : AppSetRegexPattern(p)
  /\ selectedPreset' = "custom"
  /\ PanelEdit({"pattern"})
  /\ UNCHANGED <<inputText, outputText, isLoading, error, outputFormat, extractionMethod,
                 regexFlags, questionList, onLine, gens>>
  /\ UNCHANGED outputVars
  /\ UNCHANGED lastFailure /\ UNCHANGED exportVars /\ UNCHANGED fileVars /\ UNCHANGED mounted /\ UNCHANGED swVars

\* handleFlagsChange
EditRegexFlags ==
  /\ extractionMethod = "regex"
  /\ \E f \in PanelFlags : AppSetRegexFlags(f)
  /\ selectedPreset' = "custom"
  /\ PanelEdit({"flags"})
  /\ UNCHANGED <<inputText, outputText, isLoading, error, outputFormat, extractionMethod,
                 regexPattern, questionList, onLine, gens>>
  /\ UNCHANGED outputVars
  /\ UNCHANGED lastFailure /\ UNCHANGED exportVars /\ UNCHANGED fileVars /\ UNCHANGED mounted /\ UNCHANGED swVars

\* the inputs a preset gives a new value
PresetChanges(key) ==
  (IF Presets[key].pattern # regexPattern THEN {"pattern"} ELSE {})
  \cup (IF Presets[key].flags # regexFlags THEN {"flags"} ELSE {})

\* handlePresetChange
SelectPreset ==
  /\ ~isLoading
  /\ extractionMethod = "regex"
  /\ \E key \in DOMAIN Presets :
       /\ key # selectedPreset
       /\ selectedPreset' = key
       /\ IF key = "custom" \/ PresetChanges(key) = {}
          THEN UNCHANGED <<regexPattern, regexFlags, debouncedInputText, debouncedRegexPattern,
                           debouncedRegexFlags, timers, preview, editCount, burst>>
          ELSE /\ regexPattern' = Presets[key].pattern
               /\ regexFlags' = Presets[key].flags
               /\ PanelEdit(PresetChanges(key))
  /\ UNCHANGED <<inputText, outputText, isLoading, error, outputFormat, extractionMethod,
                 questionList, onLine, gens>>
  /\ UNCHANGED outputVars
  /\ UNCHANGED lastFailure /\ UNCHANGED exportVars /\ UNCHANGED fileVars /\ UNCHANGED mounted /\ UNCHANGED swVars

\* extraction radio (line 273): the memo recomputes in the same render
SelectExtractionMethod ==
  /\ ~isLoading
  /\ \E m \in PanelMethods : m # extractionMethod /\ extractionMethod' = m
  /\ preview' = Preview(extractionMethod', debouncedInputText, debouncedRegexPattern,
                        debouncedRegexFlags)
  /\ UNCHANGED <<inputText, outputText, isLoading, error, outputFormat, regexPattern,
                 regexFlags, questionList, onLine, gens>>
  /\ UNCHANGED outputVars
  /\ UNCHANGED <<debouncedInputText, debouncedRegexPattern, debouncedRegexFlags, timers,
                 selectedPreset, editCount, burst>>
  /\ UNCHANGED lastFailure /\ UNCHANGED exportVars /\ UNCHANGED fileVars /\ UNCHANGED mounted /\ UNCHANGED swVars

TimerAfterTick(t) == IF t <= 0 THEN t ELSE IF t > TickMs THEN t - TickMs ELSE 0

\* time passes
Tick ==
  /\ NoTimerDue
  /\ ~TimersIdle
  /\ timers' = [k \in TimerKeys |-> TimerAfterTick(timers[k])]
  /\ UNCHANGED <<inputText, outputText, isLoading, error, outputFormat, extractionMethod,
                 regexPattern, regexFlags, questionList, onLine, gens>>
  /\ UNCHANGED outputVars
  /\ UNCHANGED <<debouncedInputText, debouncedRegexPattern, debouncedRegexFlags, preview,
                 selectedPreset, editCount, burst>>
  /\ UNCHANGED lastFailure /\ UNCHANGED exportVars /\ UNCHANGED fileVars /\ UNCHANGED mounted /\ UNCHANGED swVars

\* variant: the timer's callback leaves the debounced value alone
DebouncedKept(k, key, value, debounced) == debounced

\* useDebounce lines 12-14: setDebouncedValue(value)
DebouncedAfterFire(k, key, value, debounced) == IF k = key THEN value ELSE debounced

\* the render after a timer's callback: the memo recomputes if one of its
\* dependencies changed
RenderDebounced(text, pattern, flags) ==
  /\ debouncedInputText' = text
  /\ debouncedRegexPattern' = pattern
  /\ debouncedRegexFlags' = flags
  /\ preview' = Preview(extractionMethod, text, pattern, flags)
  /\ burst' = IF <<text, pattern, flags>>
                 # <<debouncedInputText, debouncedRegexPattern, debouncedRegexFlags>>
              THEN [burst EXCEPT !.recomputes = @ + 1]
              ELSE burst

\* the timer of input k is due and is taken off the pending timers
TimerRuns(k) == timers[k] = 0 /\ timers' = [timers EXCEPT ![k] = -1]

\* a due timer runs and sets its hook's debounced value
FireTimer ==
  /\ \E k \in TimerKeys :
       /\ TimerRuns(k)
       /\ RenderDebounced(DebouncedAfterFire(k, "text", inputText, debouncedInputText),
                          DebouncedAfterFire(k, "pattern", regexPattern, debouncedRegexPattern),
                          DebouncedAfterFire(k, "flags", regexFlags, debouncedRegexFlags))
  /\ UNCHANGED <<inputText, outputText, isLoading, error, outputFormat, extractionMethod,
                 regexPattern, regexFlags, questionList, onLine, gens>>
  /\ UNCHANGED outputVars
  /\ UNCHANGED <<selectedPreset, editCount>>
  /\ UNCHANGED lastFailure /\ UNCHANGED exportVars /\ UNCHANGED fileVars /\ UNCHANGED mounted /\ UNCHANGED swVars

DebounceNext ==
  \/ EditInputText
  \/ EditRegexPattern
  \/ EditRegexFlags
  \/ SelectPreset
  \/ SelectExtractionMethod
  \/ Tick
  \/ FireTimer

DebounceSpec == Init /\ [][DebounceNext]_vars

\* time passes, and a timer that is due runs
DebounceLiveSpec ==
  DebounceSpec /\ WF_vars(Tick) /\ WF_timers(\E k \in TimerKeys : TimerRuns(k))

\* C6: the segments of the preview, in order, spell out the previewed text
\* exactly (they partition it without gap or overlap).
PreviewPartitionsText == PartsText(preview.parts) = debouncedInputText

\* a burst of edits has settled: no timer is left pending
BurstSettled == burst.edits >= 1 /\ TimersIdle

\* C7 as stated: a settled burst of edits has recomputed the preview exactly once.
BurstRecomputesOnce == BurstSettled => burst.recomputes = 1

\* C7 amended: each input is debounced on its own.  An edit restarts the
\* timer of the input it changes and of no other; a debounced value changes
\* only when its own timer is due, a full delay after the last edit to that
\* input, and then becomes the input's current value; the preview changes
\* only with a debounced value or the extraction method.
EachInputDebouncedAlone ==
  [][/\ (inputText' # inputText => timers'.text = DebounceDelay)
     /\ (timers'.text > timers.text => inputText' # inputText)
     /\ (regexPattern' # regexPattern => timers'.pattern = DebounceDelay)
     /\ (timers'.pattern > timers.pattern => regexPattern' # regexPattern)
     /\ (regexFlags' # regexFlags => timers'.flags = DebounceDelay)
     /\ (timers'.flags > timers.flags => regexFlags' # regexFlags)
     /\ (debouncedInputText' # debouncedInputText
           => timers.text = 0 /\ debouncedInputText' = inputText)
     /\ (debouncedRegexPattern' # debouncedRegexPattern
           => timers.pattern = 0 /\ debouncedRegexPattern' = regexPattern)
     /\ (debouncedRegexFlags' # debouncedRegexFlags
           => timers.flags = 0 /\ debouncedRegexFlags' = regexFlags)
     /\ (preview' # preview
           => \/ extractionMethod' # extractionMethod
              \/ <<debouncedInputText', debouncedRegexPattern', debouncedRegexFlags'>>
                 # <<debouncedInputText, debouncedRegexPattern, debouncedRegexFlags>>)
    ]_vars

\* a burst touching two inputs settled after two recomputations
BurstRecomputedTwice == BurstSettled /\ burst.edits = 2 /\ burst.recomputes = 2

\* the preview shown is the one computed from the current inputs
PreviewCurrent ==
  /\ debouncedInputText = inputText
  /\ debouncedRegexPattern = regexPattern
  /\ debouncedRegexFlags = regexFlags
  /\ preview = Preview(extractionMethod, inputText, regexPattern, regexFlags)

\* C8: edits to the text, the pattern and the flags stop (a run makes at most
\* MaxEdits of them), and then the preview and match count eventually are,
\* and stay, those of the final inputs.
PreviewEventuallyCurrent == <>[]PreviewCurrent

\* all edits made, every timer has run, and the preview highlights a match
EditsSettledWithMatch ==
  /\ editCount = MaxEdits
  /\ TimersIdle
  /\ PreviewCurrent
  /\ preview.matchCount > 0


(***************************************************************************)
(* Preview against extraction, on the inputs of GenSpec.                    *)
(***************************************************************************)
RECURSIVE HighlightedTexts(_)
\* the texts of the highlighted segments, in order
HighlightedTexts(parts) ==
  IF parts = <<>> THEN <<>>
  ELSE (IF parts[1].highlight THEN <<parts[1].text>> ELSE <<>>) \o HighlightedTexts(Tail(parts))

\* C11: when the preview of the current inputs shows n > 0 matches, a request
\* in regex mode is not rejected for its regex, and what it extracts is the
\* blank-line join of the n highlighted texts.
ExtractionAgreesWithPreview ==
  (/\ Requested
   /\ onLine
   /\ extractionMethod = "regex"
   /\ preview.matchCount > 0)
  => (/\ error \notin {MsgInvalidRegex, MsgNoMatches}
      /\ Len(gens) = 1 => /\ Len(HighlightedTexts(preview.parts)) = preview.matchCount
                          /\ gens[1].userInput = Join(HighlightedTexts(preview.parts), BlankLine))


(***************************************************************************)
(* FailSpec: a streaming generation fails with any of the enumerated raw    *)
(* failures.                                                                *)
(***************************************************************************)
\* the tested substrings, two of them in another letter case, and a filler
FailureLexicon ==
  {MsgApiKey, MsgExhausted, MsgRateLimit, MsgCandidate, MsgWasBlocked,
   <<"a", "p", "i", " ", "k", "e", "y", " ", "n", "o", "t", " ", "v", "a", "l", "i", "d">>,
   <<"R", "a", "t", "e", " ", "L", "i", "m", "i", "t">>,
   <<" ">>}

AllFailures == [isError : BOOLEAN, message : TextsOf(FailureLexicon, MaxPieces)]

FailInit ==
  /\ inputText = <<"a">>
  /\ outputText = <<>>
  /\ isLoading = TRUE
  /\ error = Null
  /\ outputFormat = "tsv"
  /\ extractionMethod = "none"
  /\ regexPattern = <<>>
  /\ regexFlags = FlagsG
  /\ questionList = <<>>
  /\ onLine = TRUE
  /\ gens = <<[userInput |-> <<"a">>, received |-> <<>>]>>
  /\ validation = Idle
  /\ prevIsLoadingRef = TRUE
  /\ validations = 0
  /\ validatedText = <<>>
  /\ debouncedInputText = <<"a">>
  /\ debouncedRegexPattern = <<>>
  /\ debouncedRegexFlags = FlagsG
  /\ timers = NoTimers
  /\ preview = Preview("none", <<"a">>, <<>>, FlagsG)
  /\ selectedPreset = "custom"
  /\ editCount = 0
  /\ burst = NoBurst
  /\ lastFailure = <<>>
  /\ copyButtonText = "Copy"
  /\ clipboard = <<>>
  /\ fileError = Null
  /\ reads = <<>>
  /\ lastFile = <<>>
  /\ mounted = TRUE
  /\ cache = urlsToCache
  /\ fetches = <<>>
  /\ lastAnswer = <<>>

FailNext == Fail(AllFailures)

FailSpec == FailInit /\ [][FailNext]_vars

\* the kind the claim gives a raw failure
ClaimedKind(f) ==
  CASE f.isError /\ Includes(f.message, MsgApiKey) -> "API_KEY_INVALID"
    [] f.isError /\ ~Includes(f.message, MsgApiKey)
       /\ (Includes(f.message, MsgExhausted) \/ Includes(f.message, MsgRateLimit))
       -> "RATE_LIMIT_EXCEEDED"
    [] f.isError /\ ~Includes(f.message, MsgApiKey)
       /\ ~Includes(f.message, MsgExhausted) /\ ~Includes(f.message, MsgRateLimit)
       /\ Includes(f.message, MsgCandidate) /\ Includes(f.message, MsgWasBlocked)
       -> "CONTENT_BLOCKED"
    [] OTHER -> KindGeneric

\* C12: a failure reaches App as one of the four kinds, chosen from the raw
\* message by the case-sensitive substring tests in the stated precedence,
\* and the error shown is the message of that kind.
FailureMappedByPrecedence ==
  lastFailure # <<>>
  => /\ lastFailure[1].kind = ClaimedKind(lastFailure[1].raw)
     /\ lastFailure[1].kind \in {"API_KEY_INVALID", "RATE_LIMIT_EXCEEDED", "CONTENT_BLOCKED",
                                 KindGeneric}
     /\ error = getFriendlyErrorMessage(lastFailure[1].kind)

\* a failure whose message has both the rate-limit and the API-key text
\* reached App as API_KEY_INVALID
RateLimitAndApiKeyFailed ==
  /\ lastFailure # <<>>
  /\ lastFailure[1].raw = Failure(TRUE, MsgRateLimit \o MsgApiKey)
  /\ lastFailure[1].kind = "API_KEY_INVALID"


(***************************************************************************)
(* LiveSpec: the session, where the stream of a generation in flight ends   *)
(* (normally or by a failure).                                              *)
(***************************************************************************)
LiveSpec == Spec /\ WF_gens(\E g \in 1..Len(gens) : gens' = RemoveAt(gens, g))

\* OutputPanel lines 152-166: the error display, or else the output text
OutputDisplay == IF error # Null THEN [error |-> error] ELSE [text |-> outputText]

TsvLexicon == {<<"a", "\t", "b">>, <<"\t">>, <<"\n">>, <<"a">>, <<" ">>}
CsvLexicon == {<<"\"", "a", "\"", ",", "\"", "b", "\"">>, <<"\"">>, <<",">>, <<"\n">>, <<"a">>, <<" ">>,
               <<"\"", ",", "\"">>}
JsonLexicon == {<<"[">>, <<"]">>, <<"{", "\"", "a", "\"", ":">>, <<"1">>, <<"}">>, <<",">>, <<" ">>}

OutputTextsOf(format) ==
  CASE format = "tsv" -> TextsOf(TsvLexicon, MaxPieces)
    [] format = "csv" -> TextsOf(CsvLexicon, MaxPieces)
    [] format = "json" -> TextsOf(JsonLexicon, MaxPieces)

ValidateInit ==
  /\ outputFormat \in OutputFormats
  /\ outputText \in OutputTextsOf(outputFormat)
  /\ inputText = <<"a">>
  /\ isLoading = TRUE
  /\ error = Null
  /\ extractionMethod = "none"
  /\ regexPattern = <<>>
  /\ regexFlags = FlagsG
  /\ questionList = <<>>
  /\ onLine = TRUE
  /\ gens = <<[userInput |-> <<"a">>, received |-> <<Chunk(outputText)>>]>>
  /\ validation = Idle
  /\ prevIsLoadingRef = TRUE
  /\ validations = 0
  /\ validatedText = <<>>
  /\ debouncedInputText = <<"a">>
  /\ debouncedRegexPattern = <<>>
  /\ debouncedRegexFlags = FlagsG
  /\ timers = NoTimers
  /\ preview = Preview("none", <<"a">>, <<>>, FlagsG)
  /\ selectedPreset = "custom"
  /\ editCount = 0
  /\ burst = NoBurst
  /\ lastFailure = <<>>
  /\ copyButtonText = "Copy"
  /\ clipboard = <<>>
  /\ fileError = Null
  /\ reads = <<>>
  /\ lastFile = <<>>
  /\ mounted = TRUE
  /\ cache = urlsToCache
  /\ fetches = <<>>
  /\ lastAnswer = <<>>

ValidateNext == StreamEnd

ValidateSpec == ValidateInit /\ [][ValidateNext]_vars

\* the lines of the output text, as it stands, that are not blank
OutputLines(text) == SelectSeq(SplitOn(text, <<"\n">>), LAMBDA line : Trim(line) # <<>>)

\* the validator has run on the output of the generation that just ended
Validated == validations >= 1 /\ validatedText = outputText /\ outputText # <<>>

\* C14: for tsv, the verdict is warning exactly when some non-blank line of
\* the output text does not split into two fields on the tab, else valid.
TsvVerdictByLines ==
  (Validated /\ outputFormat = "tsv")
  => validation.status =
       (IF \E k \in 1..Len(OutputLines(outputText)) :
             Len(SplitOn(OutputLines(outputText)[k], <<"\t">>)) # 2
        THEN "warning" ELSE "valid")


\* the shape check of the claim: a quote first, a quote last, and two fields
\* on the delimiter ","
CsvShapeHolds(line) ==
  /\ Len(line) >= 1
  /\ line[1] = "\""
  /\ line[Len(line)] = "\""
  /\ Len(SplitOn(line, <<"\"", ",", "\"">>)) = 2

NeverInvalidNorWarning ==
  /\ outputFormat \in {"csv", "tsv"} => validation.status # "invalid"
  /\ outputFormat = "json" => validation.status # "warning"

\* C15 as stated: for csv, the verdict is warning exactly when some non-blank
\* line of the output text fails the shape check, else valid; csv and tsv are
\* never invalid and json is never warning.
CsvVerdictByLines ==
  Validated
  => /\ outputFormat = "csv"
        => validation.status =
             (IF \E k \in 1..Len(OutputLines(outputText)) :
                   ~CsvShapeHolds(OutputLines(outputText)[k])
              THEN "warning" ELSE "valid")
     /\ NeverInvalidNorWarning

\* C15 amended: the lines checked are those of the output text with the
\* whitespace at its two ends removed.
CsvVerdictByTrimmedLines ==
  Validated
  => /\ outputFormat = "csv"
        => validation.status =
             (IF \E k \in 1..Len(OutputLines(Trim(outputText))) :
                   ~CsvShapeHolds(OutputLines(Trim(outputText))[k])
              THEN "warning" ELSE "valid")
     /\ NeverInvalidNorWarning

\* a csv output of a well-formed row and a malformed one got a warning
CsvSecondRowMalformed ==
  /\ Validated
  /\ outputFormat = "csv"
  /\ outputText = <<"\"", "a", "\"", ",", "\"", "b", "\"">> \o <<"\n", "a">>
  /\ validation.status = "warning"


(***************************************************************************)
(* ExportSpec: the generation of ValidateSpec ends or fails, and the user   *)
(* copies the output.                                                       *)
(***************************************************************************)
\* OutputPanel line 134: disabled={!hasOutput || isLoading || !!error}
CopyDisabled == outputText = <<>> \/ isLoading \/ error # Null

\* OutputPanel line 143
DownloadDisabled == outputText = <<>> \/ isLoading \/ error # Null

\* variant: the text is trimmed before it is copied
CopiedTrimmed(text) == Trim(text)

\* handleCopy line 95: navigator.clipboard.writeText(outputText)
Copied(text) == text

\* handleCopy
HandleCopy ==
  /\ ~CopyDisabled
  /\ outputText # <<>>
  /\ clipboard' = <<Copied(outputText)>>
  /\ copyButtonText' = "Copied!"
  /\ UNCHANGED <<inputText, outputText, isLoading, error, outputFormat, extractionMethod,
                 regexPattern, regexFlags, questionList, onLine, gens, lastFailure>>
  /\ UNCHANGED outputVars /\ UNCHANGED panelVars /\ UNCHANGED fileVars /\ UNCHANGED mounted /\ UNCHANGED swVars

\* OutputPanel lines 44-49: the label goes back to Copy after two seconds
CopyLabelReset ==
  /\ copyButtonText = "Copied!"
  /\ copyButtonText' = "Copy"
  /\ UNCHANGED <<inputText, outputText, isLoading, error, outputFormat, extractionMethod,
                 regexPattern, regexFlags, questionList, onLine, gens, lastFailure, clipboard>>
  /\ UNCHANGED outputVars /\ UNCHANGED panelVars /\ UNCHANGED fileVars /\ UNCHANGED mounted /\ UNCHANGED swVars

ExportNext ==
  \/ StreamEnd
  \/ StreamFail
  \/ HandleCopy
  \/ CopyLabelReset

ExportSpec == ValidateInit /\ [][ExportNext]_vars

\* C16: Copy and Download are enabled exactly when there is output, nothing
\* is loading and no error is set, whatever the verdict; and a copy writes
\* the output text as it is.
ExportNotGatedByVerdict ==
  /\ [](/\ (ENABLED HandleCopy) <=> (outputText # <<>> /\ ~isLoading /\ error = Null)
        /\ ~CopyDisabled <=> (outputText # <<>> /\ ~isLoading /\ error = Null)
        /\ ~DownloadDisabled <=> (outputText # <<>> /\ ~isLoading /\ error = Null))
  /\ [][clipboard' # clipboard => clipboard' = <<outputText>>]_vars

\* an output with verdict invalid was copied, spaces at its ends included
InvalidOutputCopied ==
  /\ validation.status = "invalid"
  /\ clipboard = <<outputText>>
  /\ Trim(outputText) # outputText


(***************************************************************************)
(* FileSpec: file import (handleFileChange and its FileReader).  A file is  *)
(* its MIME type, its size in bytes and the text a reader gets from it; the *)
(* size is enumerated around the limit, apart from the text.                *)
(***************************************************************************)
\* handleFileChange line 164: 5 * 1024 * 1024
MaxFileSize == 5 * 1024 * 1024

MsgFileType == "Invalid file type. Please upload a .txt file."
MsgFileSize == "File is too large. Please upload files under 5MB."
MsgFileRead == "Error reading file. Please try again."

Files ==
  [type : {"text/plain", "application/pdf", ""},
   size : {0, MaxFileSize - 1, MaxFileSize, MaxFileSize + 1},
   contents : {<<>>, <<"a", "b">>, <<"Q", ":">>}]

\* variant: a file of exactly the limit is refused
TooLargeInclusive(size) == size >= MaxFileSize

\* line 165: file.size > maxSize
TooLarge(size) == size > MaxFileSize

\* handleFileChange, on the file the user chose
HandleFileChange ==
  /\ ~isLoading
  /\ \E file \in Files :
       /\ lastFile' = <<file>>
       /\ IF file.type # "text/plain"
          THEN fileError' = MsgFileType /\ UNCHANGED reads
          ELSE IF TooLarge(file.size)
          THEN fileError' = MsgFileSize /\ UNCHANGED reads
          ELSE /\ Len(reads) < MaxReads
               /\ fileError' = Null
               /\ reads' = Append(reads, file.contents)
  /\ UNCHANGED <<inputText, outputText, isLoading, error, outputFormat, extractionMethod,
                 regexPattern, regexFlags, questionList, onLine, gens, lastFailure>>
  /\ UNCHANGED outputVars /\ UNCHANGED panelVars /\ UNCHANGED exportVars
  /\ UNCHANGED mounted /\ UNCHANGED swVars

\* reader.onload (line 170): setInputText(e.target.result)
ReaderLoad ==
  /\ \E i \in 1..Len(reads) : inputText' = reads[i] /\ reads' = RemoveAt(reads, i)
  /\ UNCHANGED <<outputText, isLoading, error, outputFormat, extractionMethod,
                 regexPattern, regexFlags, questionList, onLine, gens, lastFailure>>
  /\ UNCHANGED <<fileError, lastFile>>
  /\ UNCHANGED outputVars /\ UNCHANGED panelVars /\ UNCHANGED exportVars
  /\ UNCHANGED mounted /\ UNCHANGED swVars

\* reader.onerror (line 171)
ReaderError ==
  /\ \E i \in 1..Len(reads) : reads' = RemoveAt(reads, i)
  /\ fileError' = MsgFileRead
  /\ UNCHANGED <<inputText, outputText, isLoading, error, outputFormat, extractionMethod,
                 regexPattern, regexFlags, questionList, onLine, gens, lastFailure>>
  /\ UNCHANGED lastFile
  /\ UNCHANGED outputVars /\ UNCHANGED panelVars /\ UNCHANGED exportVars
  /\ UNCHANGED mounted /\ UNCHANGED swVars

FileNext ==
  \/ HandleFileChange
  \/ ReaderLoad
  \/ ReaderError

FileSpec == Init /\ [][FileNext]_vars

\* C17: choosing a file that is not text/plain, or larger than 5*1024*1024
\* bytes, sets a file error and leaves inputText (and the readers) alone; a
\* text/plain file of at most 5*1024*1024 bytes goes to a reader, and when
\* the reader has read it its contents become the whole inputText.
FileImportChecked ==
  /\ [][HandleFileChange
        => IF lastFile'[1].type # "text/plain" \/ lastFile'[1].size > 5 * 1024 * 1024
           THEN /\ fileError' \in {MsgFileType, MsgFileSize}
                /\ inputText' = inputText
                /\ reads' = reads
           ELSE /\ reads' = Append(reads, lastFile'[1].contents)
                /\ fileError' = Null]_vars
  /\ [][Len(reads') < Len(reads)
        => \/ fileError' = MsgFileRead /\ inputText' = inputText
           \/ \E i \in 1..Len(reads) :
                reads' = RemoveAt(reads, i) /\ inputText' = reads[i] /\ fileError' = fileError]_vars
  /\ [][inputText' # inputText => \E i \in 1..Len(reads) : inputText' = reads[i]]_vars

\* a text/plain file of exactly the limit was read into inputText
FileAtLimitImported ==
  /\ lastFile # <<>>
  /\ lastFile[1].type = "text/plain"
  /\ lastFile[1].size = 5 * 1024 * 1024
  /\ reads = <<>>
  /\ fileError = Null
  /\ inputText = lastFile[1].contents
  /\ inputText # <<>>

(***************************************************************************)
(* The preview when nothing is highlighted (InputPanel lines 94-103 and    *)
(* 138-141), on the inputs of GenSpec.                                     *)
(***************************************************************************)
\* the regex the preview compiles from the debounced pattern and flags
PreviewCompiled == NewRegExp(debouncedRegexPattern, PreviewFlags(debouncedRegexFlags))

PreviewMatches == CompileAndMatch(debouncedInputText, PreviewCompiled)

\* the whole text as one literal segment, nothing counted
WholeTextLiteral ==
  /\ preview.parts = <<Part(FALSE, debouncedInputText)>>
  /\ preview.matchCount = 0

PreviewReportsFailure == preview.error \notin {Null, MsgPreviewNoMatches}

\* C18 as stated: in regex mode, when the pattern and flags fail to compile
\* the preview is the whole text as one literal segment with matchCount 0 and
\* an error message, and when they compile and match nowhere it is the same
\* with the message "No matches found."
PreviewPlainWithMessage ==
  extractionMethod = "regex" =>
    /\ ~PreviewCompiled.ok => (WholeTextLiteral /\ PreviewReportsFailure)
    /\ (PreviewCompiled.ok /\ PreviewMatches.matches = <<>>)
         => (WholeTextLiteral /\ preview.error = MsgPreviewNoMatches)

\* C18, amended: the messages come only for a non-empty text and a non-blank
\* pattern; for an empty text or a blank pattern nothing is compiled, and the
\* preview is the whole text as one literal segment with matchCount 0 and no
\* message.
PreviewPlainWithMessageWhenCompiled ==
  extractionMethod = "regex" =>
    IF debouncedInputText = <<>> \/ Trim(debouncedRegexPattern) = <<>>
    THEN WholeTextLiteral /\ preview.error = Null
    ELSE /\ ~PreviewCompiled.ok => (WholeTextLiteral /\ PreviewReportsFailure)
         /\ (PreviewCompiled.ok /\ PreviewMatches.matches = <<>>)
              => (WholeTextLiteral /\ preview.error = MsgPreviewNoMatches)

\* a pattern that compiles and matches nowhere in a non-empty text
PreviewFoundNothing ==
  /\ extractionMethod = "regex"
  /\ debouncedInputText # <<>>
  /\ Trim(debouncedRegexPattern) # <<>>
  /\ PreviewCompiled.ok
  /\ PreviewMatches.matches = <<>>
  /\ preview.error = MsgPreviewNoMatches

(***************************************************************************)
(* The auto-detect split (App.tsx lines 53-61), against the cut of the raw  *)
(* text at its marker lines.                                                *)
(***************************************************************************)
\* a line starting with one of the markers starts at offset i of text
MarkerAt(text, i) ==
  /\ LineStart(text, i)
  /\ \/ StartsWithAt(text, i, <<"Q", ":">>)
     \/ StartsWithAt(text, i, <<"Q", "u", "e", "s", "t", "i", "o", "n", ":">>)
     \/ StartsWithAt(text, i, <<"-", " ">>)
     \/ StartsWithAt(text, i, <<"*", " ">>)

\* the raw text from offset p on, cut before every marker line after p
RECURSIVE CutAtMarkers(_, _, _)
CutAtMarkers(text, p, q) ==
  IF q >= Len(text) THEN <<Substring(text, p, Len(text))>>
  ELSE IF MarkerAt(text, q)
       THEN <<Substring(text, p, q)>> \o CutAtMarkers(text, q, q + 1)
       ELSE CutAtMarkers(text, p, q + 1)

\* the cut pieces that are not whitespace only
ClaimedChunks(text) == SelectSeq(CutAtMarkers(text, 0, 1), LAMBDA s : Trim(s) # <<>>)

OnlyMarkerAtStart(text) == MarkerAt(text, 0) /\ \A i \in 1..Len(text) : ~MarkerAt(text, i)

ChunksStartWithMarker(chunks) == \A k \in 2..Len(chunks) : MarkerAt(chunks[k], 0)

\* C19: in auto mode the text sent is made of the pieces of the raw text cut
\* before its marker lines, nothing dropped but the whitespace-only pieces,
\* joined by a blank line; every chunk but possibly the first starts with a
\* marker; a text whose only marker is at offset 0 is sent as it is.
AutoSplitKeepsText ==
  (extractionMethod = "auto" /\ Len(gens) = 1)
  => /\ Flatten(CutAtMarkers(inputText, 0, 1)) = inputText
     /\ AutoChunks(inputText) = ClaimedChunks(inputText)
     /\ ChunksStartWithMarker(AutoChunks(inputText))
     /\ gens[1].userInput = Join(ClaimedChunks(inputText), BlankLine)
     /\ OnlyMarkerAtStart(inputText) => gens[1].userInput = inputText

\* a generation started on a text of two chunks, the second at a marker line
AutoSplitTwoChunks ==
  /\ extractionMethod = "auto"
  /\ Len(gens) = 1
  /\ inputText = <<"a", "\n", "Q", ":">>
  /\ gens[1].userInput = <<"a", "\n", "\n", "\n", "Q", ":">>

(***************************************************************************)
(* UnmountSpec: the App component is unmounted while a generation streams.  *)
(* handleGenerate keeps no handle on its stream (lines 100-111): the        *)
(* for-await loop of a generation goes on after the component is gone.      *)
(***************************************************************************)
\* React unmounts the component; nothing in App runs on unmount
Unmount ==
  /\ mounted
  /\ mounted' = FALSE
  /\ UNCHANGED <<inputText, outputText, isLoading, error, outputFormat, extractionMethod,
                 regexPattern, regexFlags, questionList, onLine, gens, lastFailure>>
  /\ UNCHANGED outputVars /\ UNCHANGED panelVars /\ UNCHANGED exportVars
  /\ UNCHANGED fileVars /\ UNCHANGED swVars

UnmountNext ==
  \/ HandleGenerate
  \/ StreamChunk
  \/ StreamEnd
  \/ StreamFail
  \/ Unmount

UnmountSpec == FailInit /\ [][UnmountNext]_vars

\* C20: once the component is unmounted, no generation in flight takes a
\* further fragment from its stream and nothing is appended to the output;
\* the unmount itself leaves the output appended so far in place.
UnmountCancelsGeneration ==
  /\ [][~mounted
        => /\ outputText' = outputText
           /\ Len(gens') = Len(gens)
                => \A g \in 1..Len(gens) : gens'[g].received = gens[g].received]_vars
  /\ [][(mounted /\ ~mounted') => outputText' = outputText]_vars

(***************************************************************************)
(* SwSpec: the service worker's fetch listener (sw.js lines 23-65), after   *)
(* the install that filled the cache.  A request being handled waits for    *)
(* caches.match ("match"), for the network ("live" for the API requests,    *)
(* "fetch" for the others) or for cache.put ("put").                        *)
(***************************************************************************)
Googleapis == <<"g", "o", "o", "g", "l", "e", "a", "p", "i", "s", ".", "c", "o", "m">>

\* an API URL, a URL naming the API host in its query, a script, the shell
SwUrls ==
  {<<"/", "/">> \o Googleapis \o <<"/", "v">>,
   <<"/", "?", "u", "=">> \o Googleapis,
   <<"/", "a", ".", "j", "s">>,
   <<"/">>}

SwRequests == [url : SwUrls, method : {"GET", "POST"}]

\* the responses the network gives
SwResponses == [status : {200, 404}, type : {"basic", "cors", "opaque"}]

\* variant: only a URL that starts with the API host is fetched live
LiveOnlyHost(url) == StartsWithAt(url, 2, Googleapis)

\* line 30: event.request.url.includes('googleapis.com')
LiveOnly(url) == Includes(url, Googleapis)

\* line 47, negated: the response is put into the cache
Cacheable(resp) == resp.status = 200 /\ (resp.type = "basic" \/ resp.type = "cors")

Answer(req, from) == <<[url |-> req.url, method |-> req.method, from |-> from]>>

SwUnchangedApp ==
  /\ UNCHANGED <<inputText, outputText, isLoading, error, outputFormat, extractionMethod,
                 regexPattern, regexFlags, questionList, onLine, gens, lastFailure>>
  /\ UNCHANGED outputVars /\ UNCHANGED panelVars /\ UNCHANGED exportVars
  /\ UNCHANGED fileVars /\ UNCHANGED mounted

\* the fetch listener, up to its first await
FetchEvent ==
  /\ \E req \in SwRequests :
       IF req.method # "GET"
       THEN \* lines 25-27: not handled, the browser fetches it
            /\ lastAnswer' = Answer(req, "network")
            /\ UNCHANGED fetches
       ELSE /\ Len(fetches) < MaxFetches
            /\ fetches' = Append(fetches, [req |-> req,
                                           stage |-> IF LiveOnly(req.url) THEN "live" ELSE "match"])
            /\ UNCHANGED lastAnswer
  /\ UNCHANGED cache
  /\ SwUnchangedApp

\* lines 36-41: caches.match settles
CacheMatch ==
  /\ \E i \in 1..Len(fetches) :
       /\ fetches[i].stage = "match"
       /\ IF fetches[i].req.url \in cache
          THEN /\ lastAnswer' = Answer(fetches[i].req, "cache")
               /\ fetches' = RemoveAt(fetches, i)
          ELSE /\ fetches' = [fetches EXCEPT ![i].stage = "fetch"]
               /\ UNCHANGED lastAnswer
  /\ UNCHANGED cache
  /\ SwUnchangedApp

\* lines 31 and 44-61: fetch(event.request) resolves
NetworkResponse ==
  /\ \E i \in 1..Len(fetches), resp \in SwResponses :
       /\ fetches[i].stage \in {"live", "fetch"}
       /\ lastAnswer' = Answer(fetches[i].req, "network")
       /\ fetches' = IF fetches[i].stage = "fetch" /\ Cacheable(resp)
                     THEN [fetches EXCEPT ![i].stage = "put"]
                     ELSE RemoveAt(fetches, i)
  /\ UNCHANGED cache
  /\ SwUnchangedApp

\* fetch(event.request) rejects: the page gets a network error
NetworkFailure ==
  /\ \E i \in 1..Len(fetches) :
       /\ fetches[i].stage \in {"live", "fetch"}
       /\ lastAnswer' = Answer(fetches[i].req, "failed")
       /\ fetches' = RemoveAt(fetches, i)
  /\ UNCHANGED cache
  /\ SwUnchangedApp

\* lines 55-58: caches.open settles and the clone is put
CachePut ==
  /\ \E i \in 1..Len(fetches) :
       /\ fetches[i].stage = "put"
       /\ cache' = cache \cup {fetches[i].req.url}
       /\ fetches' = RemoveAt(fetches, i)
  /\ UNCHANGED lastAnswer
  /\ SwUnchangedApp

SwNext ==
  \/ FetchEvent
  \/ CacheMatch
  \/ NetworkResponse
  \/ NetworkFailure
  \/ CachePut

SwSpec == Init /\ [][SwNext]_vars

\* C21: a request whose URL contains "googleapis.com" is never answered
\* from the cache, and no response to such a request is ever in the cache or
\* waiting to be put there, whatever was handled before.
ApiRequestsAlwaysLive ==
  /\ \A u \in cache : ~Includes(u, Googleapis)
  /\ \A i \in 1..Len(fetches) :
       Includes(fetches[i].req.url, Googleapis) => fetches[i].stage = "live"
  /\ (lastAnswer # <<>> /\ Includes(lastAnswer[1].url, Googleapis))
       => lastAnswer[1].from # "cache"

\* an API request answered from the network, after the script was cached and
\* while the request naming the API host in its query waits for the network
ApiAnsweredAfterCaching ==
  /\ <<"/", "a", ".", "j", "s">> \in cache
  /\ lastAnswer # <<>>
  /\ lastAnswer[1].url = <<"/", "/">> \o Googleapis \o <<"/", "v">>
  /\ lastAnswer[1].method = "GET"
  /\ lastAnswer[1].from = "network"
  /\ Len(fetches) = 1
  /\ fetches[1].req.url = <<"/", "?", "u", "=">> \o Googleapis

UploadNext ==
  \/ ChangeInputText
  \/ HandleFileChange
  \/ ReaderLoad
  \/ ReaderError
  \/ HandleGenerate
  \/ StreamChunk
  \/ StreamEnd

UploadSpec == Init /\ [][UploadNext]_vars

\* C24: while a generation is in progress no step changes inputText, whether
\* an edit, a file chosen, a file read to its end or a fragment.
InputFrozenWhileLoading == [][isLoading => inputText' = inputText]_vars

\* the validation state the validator gives for a text and a format
Verdict(text, format) ==
  [status |-> Validate(text, format),
   message |-> ValidationMessage(Validate(text, format), format)]

\* C25 as stated: a verdict that is not idle is the validator's result for
\* the current outputText under the currently selected output format.
VerdictForCurrentFormat ==
  validation # Idle => validation = Verdict(outputText, outputFormat)

\* C25, amended: a verdict that is not idle is the validator's result for the
\* current outputText under the output format selected when the generation
\* finished: it is computed in the finishing step for the format of that
\* step, and every other step that leaves a verdict leaves it, and the
\* output text, as they were, a change of the output format included.
VerdictForFormatAtFinish ==
  /\ [][(validation' # Idle /\ isLoading /\ ~isLoading')
        => validation' = Verdict(outputText', outputFormat')]_vars
  /\ [][(validation' # Idle /\ ~(isLoading /\ ~isLoading'))
        => (validation' = validation /\ outputText' = outputText)]_vars

\* the format was changed after the generation finished, and the verdict is
\* the one for the format selected before
VerdictOfFormerFormat ==
  /\ ~isLoading
  /\ validation # Idle
  /\ validation # Verdict(outputText, outputFormat)
  /\ \E f \in OutputFormats \ {outputFormat} : validation = Verdict(outputText, f)

====
